---- MODULE Spec2Model ----
(***************************************************************************)
(* FastMCP resources: Resource (resources/base.py) and ResourceTemplate    *)
(* (resources/templates.py).                                               *)
(*                                                                         *)
(* Strings are sequences of one-character strings, so that the template to *)
(* regular-expression conversion of ResourceTemplate.matches and the       *)
(* matching itself are computed character by character.                    *)
(***************************************************************************)
EXTENDS Integers, Sequences, FiniteSets, TLC

(***************************************************************************)
(* Bounds of the model.                                                    *)
(***************************************************************************)
MaxTemplateLen == 4   \* longest enumerated uri_template
MaxUriLen == 3        \* longest enumerated candidate URI
NumCalls == 2         \* concurrent create_resource calls
MaxReads == 2         \* read() calls on one created Resource

VARIABLES
    \* ResourceTemplate.matches
    uri_template,     \* self.uri_template
    match_uri,        \* the uri argument of the last matches call
    match_result,     \* what that call gave: a dict, None or a raised re.error
    \* ResourceTemplate.from_function
    ff_args,          \* the arguments of the from_function call
    ff_result,        \* the template it returned or the error it raised
    \* Resource construction
    res_args,         \* the keyword arguments given to the Resource model
    res_result,       \* the constructed Resource or the validation error
    \* ResourceTemplate.create_resource
    templates,        \* the registered templates, by template id
    calls,            \* one coroutine frame per create_resource call
    invocations,      \* how often each call's producer has been invoked
    reads             \* the values read() returned, per created Resource

vars == <<uri_template, match_uri, match_result, ff_args, ff_result,
          res_args, res_result, templates, calls, invocations, reads>>

matchVars == <<uri_template, match_uri, match_result>>
ffVars == <<ff_args, ff_result>>
resVars == <<res_args, res_result>>
createVars == <<templates, calls, invocations, reads>>

(***************************************************************************)
(* Python values.                                                          *)
(***************************************************************************)
None == [some |-> FALSE, val |-> <<>>]
Some(v) == [some |-> TRUE, val |-> v]

Min(a, b) == IF a < b THEN a ELSE b

Letters == {"a", "b", "c", "d", "e", "f", "g", "h", "i", "j", "k", "l", "m",
            "n", "o", "p", "q", "r", "s", "t", "u", "v", "w", "x", "y", "z"}
Digits == {"0", "1", "2", "3", "4", "5", "6", "7", "8", "9"}

\* All sequences over S of length at most n.
RECURSIVE SeqsUpTo(_, _)
SeqsUpTo(S, n) ==
    IF n = 0 THEN {<<>>}
    ELSE LET shorter == SeqsUpTo(S, n - 1)
         IN  shorter \cup {Append(s, c) : s \in shorter, c \in S}

(***************************************************************************)
(* ResourceTemplate.matches: the template becomes a regular expression.    *)
(***************************************************************************)
\* str.replace(old, new) for a one-character old.
RECURSIVE Replace(_, _, _)
Replace(s, old, new) ==
    IF s = <<>> THEN <<>>
    ELSE (IF Head(s) = old THEN new ELSE <<Head(s)>>)
             \o Replace(Tail(s), old, new)

GroupOpen == <<"(", "?", "P", "<">>
GroupClose == <<">", "[", "^", "/", "]", "+", ")">>
NotSlashClass == <<"[", "^", "/", "]">>

\* pattern = self.uri_template.replace("{", "(?P<").replace("}", ">[^/]+)")
TemplatePattern(t) == Replace(Replace(t, "{", GroupOpen), "}", GroupClose)

\* f"^{pattern}$"
AnchoredPattern(t) == <<"^">> \o TemplatePattern(t) \o <<"$">>

(***************************************************************************)
(* re.compile: the patterns that TemplatePattern can produce.  An item is  *)
(* one atom with its repetition; kind is "bol" (^), "eol" ($), "lit" (a    *)
(* literal character), "any" (.), "cls" ([^/]) or "grp" (a named group     *)
(* whose body is [^/]+).                                                   *)
(***************************************************************************)
Item(kind, ch, name, quant) ==
    [kind |-> kind, ch |-> ch, name |-> name, quant |-> quant]

ReError == [err |-> TRUE, items |-> <<>>]

HasAt(p, i, w) ==
    /\ i + Len(w) - 1 <= Len(p)
    /\ SubSeq(p, i, i + Len(w) - 1) = w

\* The least j >= i with p[j] = c, or 0.
FirstIndex(p, c, i) ==
    IF \E j \in i..Len(p) : p[j] = c
    THEN CHOOSE j \in i..Len(p) : p[j] = c /\ \A k \in i..(j - 1) : p[k] # c
    ELSE 0

\* str.isidentifier() on an ASCII name, as re requires of a group name.
IsIdentifier(nm) ==
    /\ nm # <<>>
    /\ nm[1] \in Letters \cup {"_"}
    /\ \A k \in 1..Len(nm) : nm[k] \in Letters \cup Digits \cup {"_"}

GroupNames(items) ==
    {items[k].name : k \in {n \in 1..Len(items) : items[n].kind = "grp"}}

\* A repetition sign after the items read so far: "nothing to repeat" at the
\* start or after an anchor, "multiple repeat" after another repetition.
Repeat(items, quant) ==
    IF items = <<>> THEN ReError
    ELSE LET last == items[Len(items)]
         IN  IF last.kind \in {"bol", "eol"} \/ last.quant # "one"
             THEN ReError
             ELSE [err |-> FALSE,
                   items |-> [items EXCEPT ![Len(items)].quant = quant]]

RECURSIVE ParseRe(_, _, _)
ParseRe(p, i, items) ==
    IF i > Len(p) THEN [err |-> FALSE, items |-> items]
    ELSE LET c == p[i] IN
      CASE c = "(" ->
             \* "(?P<name>" opens a named group; the name ends at the next ">"
             IF ~HasAt(p, i, GroupOpen) THEN ReError
             ELSE LET j == FirstIndex(p, ">", i + Len(GroupOpen))
                      nm == SubSeq(p, i + Len(GroupOpen), j - 1)
                      body == NotSlashClass \o <<"+", ")">>
                  IN  IF j = 0 THEN ReError            \* unterminated name
                      ELSE IF ~IsIdentifier(nm) THEN ReError
                      ELSE IF nm \in GroupNames(items) THEN ReError
                      ELSE IF ~HasAt(p, j + 1, body) THEN ReError
                      ELSE ParseRe(p, j + 1 + Len(body),
                                   Append(items, Item("grp", "", nm, "one")))
        [] c = ")" -> ReError                          \* unbalanced parenthesis
        [] c = "[" ->
             IF HasAt(p, i, NotSlashClass)
             THEN ParseRe(p, i + Len(NotSlashClass),
                          Append(items, Item("cls", "", <<>>, "one")))
             ELSE ReError
        [] c = "*" ->
             LET r == Repeat(items, "star")
             IN  IF r.err THEN ReError ELSE ParseRe(p, i + 1, r.items)
        [] c = "+" ->
             LET r == Repeat(items, "plus")
             IN  IF r.err THEN ReError ELSE ParseRe(p, i + 1, r.items)
        [] c = "." ->
             ParseRe(p, i + 1, Append(items, Item("any", "", <<>>, "one")))
        [] c = "^" ->
             ParseRe(p, i + 1, Append(items, Item("bol", "", <<>>, "one")))
        [] c = "$" ->
             ParseRe(p, i + 1, Append(items, Item("eol", "", <<>>, "one")))
        [] OTHER ->
             ParseRe(p, i + 1, Append(items, Item("lit", c, <<>>, "one")))

ReCompile(p) == ParseRe(p, 1, <<>>)

(***************************************************************************)
(* re.match: backtracking from position 1, greedy repetitions first.       *)
(***************************************************************************)
NoMatch == [ok |-> FALSE, caps |-> <<>>, end |-> 0]

\* Does the atom of item it accept the character ch?
AtomAccepts(it, ch) ==
    CASE it.kind = "lit" -> ch = it.ch
      [] it.kind = "any" -> ch # "\n"
      [] it.kind \in {"cls", "grp"} -> ch # "/"
      [] OTHER -> FALSE

\* How many characters from pos on the atom accepts in a row.
RECURSIVE Run(_, _, _)
Run(it, s, pos) ==
    IF pos <= Len(s) /\ AtomAccepts(it, s[pos])
    THEN 1 + Run(it, s, pos + 1)
    ELSE 0

MinCount(quant) == IF quant = "star" THEN 0 ELSE 1
Unbounded(quant) == quant # "one"

RECURSIVE MatchFrom(_, _, _, _, _)
RECURSIVE TryCount(_, _, _, _, _, _)
RECURSIVE GroupIter(_, _, _, _, _, _, _)

\* items[k..] against s[pos..] with the groups captured so far.
MatchFrom(items, k, s, pos, caps) ==
    IF k > Len(items) THEN [ok |-> TRUE, caps |-> caps, end |-> pos]
    ELSE LET it == items[k] IN
      CASE it.kind = "bol" ->
             IF pos = 1 THEN MatchFrom(items, k + 1, s, pos, caps) ELSE NoMatch
        [] it.kind = "eol" ->
             \* $ is the end of the string or just before a final newline
             IF \/ pos = Len(s) + 1
                \/ pos = Len(s) /\ s[pos] = "\n"
             THEN MatchFrom(items, k + 1, s, pos, caps)
             ELSE NoMatch
        [] it.kind = "grp" ->
             GroupIter(items, k, s, pos, caps, Run(it, s, pos), 0)
        [] OTHER ->
             LET run == Run(it, s, pos)
             IN  TryCount(items, k, s, pos, caps,
                          IF Unbounded(it.quant) THEN run ELSE Min(run, 1))

\* n repetitions of the atom of items[k], then n - 1, ... down to its minimum.
TryCount(items, k, s, pos, caps, n) ==
    IF n < MinCount(items[k].quant) THEN NoMatch
    ELSE LET r == MatchFrom(items, k + 1, s, pos + n, caps)
         IN  IF r.ok THEN r ELSE TryCount(items, k, s, pos, caps, n - 1)

\* One more iteration of the group items[k] over n characters (then fewer),
\* after done iterations; with no iteration left to try, the rest follows.
GroupIter(items, k, s, pos, caps, n, done) ==
    LET it == items[k] IN
    IF n = 0
    THEN IF done >= MinCount(it.quant)
         THEN MatchFrom(items, k + 1, s, pos, caps)
         ELSE NoMatch
    ELSE LET caps2 == [caps EXCEPT ![it.name] = Some(SubSeq(s, pos, pos + n - 1))]
             r == IF Unbounded(it.quant)
                  THEN GroupIter(items, k, s, pos + n, caps2,
                                 Run(it, s, pos + n), done + 1)
                  ELSE MatchFrom(items, k + 1, s, pos + n, caps2)
         IN  IF r.ok THEN r ELSE GroupIter(items, k, s, pos, caps, n - 1, done)

\* What matches gives: {"dict", d}, None, or the re.error re.match raised.
MatchDict(d) == [kind |-> "dict", dict |-> d]
MatchNone == [kind |-> "None", dict |-> <<>>]
MatchError == [kind |-> "re.error", dict |-> <<>>]

\* re.match(f"^{pattern}$", uri): the match object, its groups unset at first.
ReMatch(re, uri) ==
    MatchFrom(re.items, 1, uri, 1, [nm \in GroupNames(re.items) |-> None])

\* ResourceTemplate.matches(uri)
Matches(t, uri) ==
    LET re == ReCompile(AnchoredPattern(t)) IN
    IF re.err THEN MatchError
    ELSE LET m == ReMatch(re, uri)
         IN  IF m.ok THEN MatchDict(m.caps) ELSE MatchNone

(***************************************************************************)
(* The specification of matches: a template, then one matches call.        *)
(***************************************************************************)
TemplateChars == {"a", "/", ".", "*", "{", "}"}
UriChars == {"a", "b", "/", ".", "\n"}

WeatherTemplate ==
    <<"w", "e", "a", "t", "h", "e", "r", ":", "/", "/", "{", "c", "i", "t",
      "y", "}", "/", "c", "u", "r", "r", "e", "n", "t">>
WeatherParis == <<"w", "e", "a", "t", "h", "e", "r", ":", "/", "/",
                  "p", "a", "r", "i", "s">>
WeatherParisCurrent == WeatherParis \o <<"/", "c", "u", "r", "r", "e", "n", "t">>

UriTemplates == SeqsUpTo(TemplateChars, MaxTemplateLen) \cup {WeatherTemplate}
Uris ==
    SeqsUpTo(UriChars, MaxUriLen)
        \cup {WeatherParis, WeatherParisCurrent, WeatherParisCurrent \o <<"\n">>}

NotCalled == [kind |-> "not called", dict |-> <<>>]
Idle == "idle"

InitMatch ==
    /\ uri_template \in UriTemplates
    /\ match_uri = <<>>
    /\ match_result = NotCalled
    /\ ff_args = Idle /\ ff_result = Idle
    /\ res_args = Idle /\ res_result = Idle
    /\ templates = Idle /\ calls = Idle /\ invocations = Idle /\ reads = Idle

MatchesCall(uri) ==
    /\ match_result = NotCalled
    /\ match_uri' = uri
    /\ match_result' = Matches(uri_template, uri)
    /\ UNCHANGED <<uri_template, ffVars, resVars, createVars>>

NextMatch == \E uri \in Uris : MatchesCall(uri)

SpecMatch == InitMatch /\ [][NextMatch]_vars

(***************************************************************************)
(* The reading of a template that the matches claims state: a run          *)
(* "{identifier}" is a placeholder, every other character stands for       *)
(* itself.                                                                 *)
(***************************************************************************)
RECURSIVE TemplateTokens(_, _, _)
TemplateTokens(t, i, toks) ==
    IF i > Len(t) THEN [ok |-> TRUE, toks |-> toks]
    ELSE IF t[i] = "{"
         THEN LET j == FirstIndex(t, "}", i + 1)
                  nm == SubSeq(t, i + 1, j - 1)
              IN  IF j = 0 \/ ~IsIdentifier(nm) THEN [ok |-> FALSE, toks |-> <<>>]
                  ELSE TemplateTokens(t, j + 1,
                                      Append(toks, [ph |-> TRUE, text |-> nm]))
         ELSE IF t[i] = "}" THEN [ok |-> FALSE, toks |-> <<>>]
         ELSE TemplateTokens(t, i + 1,
                             Append(toks, [ph |-> FALSE, text |-> <<t[i]>>]))

PlaceholderNames(t) ==
    LET toks == TemplateTokens(t, 1, <<>>).toks
    IN  {toks[k].text : k \in {n \in 1..Len(toks) : toks[n].ph}}

\* Every brace of t belongs to a placeholder and no name occurs twice.
WellFormedTemplate(t) ==
    LET r == TemplateTokens(t, 1, <<>>)
    IN  /\ r.ok
        /\ \A k, n \in 1..Len(r.toks) :
              (r.toks[k].ph /\ r.toks[n].ph /\ k # n)
                  => r.toks[k].text # r.toks[n].text

\* The URI that the template gives with f[name] in place of each placeholder.
RECURSIVE ExpandTokens(_, _)
ExpandTokens(toks, f) ==
    IF toks = <<>> THEN <<>>
    ELSE (IF Head(toks).ph THEN f[Head(toks).text] ELSE Head(toks).text)
             \o ExpandTokens(Tail(toks), f)

Expand(t, f) == ExpandTokens(TemplateTokens(t, 1, <<>>).toks, f)

SlashFree(w) == \A k \in 1..Len(w) : w[k] # "/"

\* The non-empty pieces of u without a slash.
Pieces(u) ==
    {w \in {SubSeq(u, i, j) : i \in 1..Len(u), j \in 1..Len(u)} :
        w # <<>> /\ SlashFree(w)}

MatchCalled == match_result # NotCalled

\* C1: matches returns a mapping only when the whole URI is the template with
\* each placeholder replaced by one or more non-slash characters; the mapping
\* has exactly the placeholder names as keys, each bound to the non-empty,
\* slash-free piece it stands for, and in every other case the result is None.
\* weather://{city}/current gives {city: paris} on weather://paris/current and
\* None on weather://paris.
C1_MatchesWholeUri ==
    (MatchCalled /\ WellFormedTemplate(uri_template)) =>
        LET names == PlaceholderNames(uri_template)
            d == match_result.dict
        IN  /\ IF match_result.kind = "dict"
               THEN /\ DOMAIN d = names
                    /\ \A nm \in names :
                          d[nm].some /\ d[nm].val # <<>> /\ SlashFree(d[nm].val)
                    /\ Expand(uri_template, [nm \in names |-> d[nm].val])
                          = match_uri
               ELSE /\ match_result.kind = "None"
                    /\ ~\E f \in [names -> Pieces(match_uri)] :
                          Expand(uri_template, f) = match_uri
            /\ (uri_template = WeatherTemplate /\ match_uri = WeatherParisCurrent)
                  => match_result
                        = MatchDict((<<"c", "i", "t", "y">>
                                        :> Some(<<"p", "a", "r", "i", "s">>)))
            /\ (uri_template = WeatherTemplate /\ match_uri = WeatherParis)
                  => match_result = MatchNone

\* Where the match that matches found ends in the URI (match.end()).
MatchEnd(t, uri) == ReMatch(ReCompile(AnchoredPattern(t)), uri).end

\* A trailing segment: a slash and then more characters.
TrailingSegments == {<<"/">> \o w : w \in SeqsUpTo(UriChars, 1) \ {<<>>}}

\* C2: matches never matches partially: when a URI matches a template, the
\* match spans the URI from its first to its last character, and the URI with
\* an extra trailing segment appended does not match.
C2_NoPartialMatch ==
    (MatchCalled /\ match_result.kind = "dict") =>
        /\ MatchEnd(uri_template, match_uri) = Len(match_uri) + 1
        /\ \A seg \in TrailingSegments :
              Matches(uri_template, match_uri \o seg).kind # "dict"

NoPlaceholders(t) == \A k \in 1..Len(t) : t[k] \notin {"{", "}"}

\* C9: a template without placeholders matches exactly the URI that is equal
\* to it character for character, and then gives the empty mapping.
C9_LiteralTemplate ==
    (MatchCalled /\ NoPlaceholders(uri_template)) =>
        /\ (match_result.kind = "dict") <=> (match_uri = uri_template)
        /\ (match_result.kind = "dict") => (DOMAIN match_result.dict = {})

(***************************************************************************)
(* Resource (resources/base.py): construction of the pydantic model.       *)
(***************************************************************************)
MaxResUriLen == 3     \* longest enumerated uri argument
MaxNameLen == 2       \* longest enumerated name argument
MaxMimeLen == 3       \* longest enumerated mime_type argument

UpperCase == {"A"}
Lower(c) == IF c = "A" THEN "a" ELSE c
LowerAll(w) == [k \in 1..Len(w) |-> Lower(w[k])]

SchemeChars == Letters \cup UpperCase \cup Digits \cup {"+", "-", "."}

\* AnyUrl with host_required=False: a scheme, a colon and the rest.
UrlValid(raw) ==
    LET j == FirstIndex(raw, ":", 1)
    IN  /\ j > 1
        /\ raw[1] \in Letters \cup UpperCase
        /\ \A k \in 1..(j - 1) : raw[k] \in SchemeChars

UrlParse(raw) ==
    LET j == FirstIndex(raw, ":", 1)
    IN  [scheme |-> LowerAll(SubSeq(raw, 1, j - 1)),
         rest |-> SubSeq(raw, j + 1, Len(raw))]

\* str(uri)
UrlStr(url) == url.scheme \o <<":">> \o url.rest

AlphaNum == Letters \cup UpperCase \cup Digits

\* pattern=r"^[a-zA-Z0-9]+/[a-zA-Z0-9\-+.]+$"
MimePatternOk(m) ==
    LET j == FirstIndex(m, "/", 1)
    IN  /\ j > 1
        /\ j < Len(m)
        /\ \A k \in 1..(j - 1) : m[k] \in AlphaNum
        /\ \A k \in (j + 1)..Len(m) : m[k] \in AlphaNum \cup {"-", "+", "."}

TextPlain == <<"t", "e", "x", "t", "/", "p", "l", "a", "i", "n">>

\* An outcome: a returned value or a raised exception with its message, the
\* message being the sequence of the pieces of text it is made of.
Raise(kind, text) ==
    [ok |-> FALSE, kind |-> kind, msg |-> <<text>>, val |-> <<>>]
Return(v) == [ok |-> TRUE, kind |-> "", msg |-> <<>>, val |-> v]
\* The call has not ended yet.
Pending == [ok |-> FALSE, kind |-> "pending", msg |-> <<>>, val |-> <<>>]

\* Resource.set_default_name(name, info); data is info.data, the fields
\* validated before name, in which uri is missing when it was not valid.
set_default_name_keeps_empty(name, data) ==
    IF name.some THEN Return(name.val)
    ELSE IF data.uri.some THEN Return(UrlStr(data.uri.val))
    ELSE Raise("ValueError", "Either name or uri must be provided")

set_default_name(name, data) ==
    IF name.some /\ name.val # <<>> THEN Return(name.val)
    ELSE IF data.uri.some THEN Return(UrlStr(data.uri.val))
    ELSE Raise("ValueError", "Either name or uri must be provided")

\* Resource(uri=..., name=..., mime_type=...): the fields are validated in
\* the order of their declaration and any failure fails the construction.
ResourceInit(args) ==
    LET uriOk == args.uri.some /\ UrlValid(args.uri.val)
        data == [uri |-> IF uriOk THEN Some(UrlParse(args.uri.val)) ELSE None]
        nm == set_default_name(args.name, data)
        mime == IF args.mime_type.some THEN args.mime_type.val ELSE TextPlain
    IN  IF uriOk /\ nm.ok /\ MimePatternOk(mime)
        THEN Return([uri |-> data.uri.val, name |-> nm.val, mime_type |-> mime])
        ELSE Raise("ValidationError", "validation error for Resource")

Optional(S) == {None} \cup {Some(v) : v \in S}

FileATxt == <<"f", "i", "l", "e", ":", "/", "/", "/", "a", ".", "t", "x", "t">>

ResUris == SeqsUpTo({"a", "A", ":", "/"}, MaxResUriLen) \cup {FileATxt}
ResNames == SeqsUpTo({"n"}, MaxNameLen)
ResMimes == SeqsUpTo({"t", "/"}, MaxMimeLen)

ResourceArgs ==
    [uri : Optional(ResUris), name : Optional(ResNames),
     mime_type : Optional(ResMimes)]

InitResource ==
    /\ res_args \in ResourceArgs
    /\ res_result = Pending
    /\ uri_template = Idle /\ match_uri = Idle /\ match_result = Idle
    /\ ff_args = Idle /\ ff_result = Idle
    /\ templates = Idle /\ calls = Idle /\ invocations = Idle /\ reads = Idle

Construct ==
    /\ res_result = Pending
    /\ res_result' = ResourceInit(res_args)
    /\ UNCHANGED <<res_args, matchVars, ffVars, createVars>>

NextResource == Construct

SpecResource == InitResource /\ [][NextResource]_vars

Constructed == res_result.ok
NameGiven == res_args.name.some /\ res_args.name.val # <<>>

\* C8: a non-empty name is kept; with an empty or absent name and a valid
\* uri the name is the string form of the uri (file:///a.txt gives the name
\* file:///a.txt); with neither a name nor a usable uri the construction
\* fails; so every constructed Resource has a non-empty name.
C8_NameDefaulting ==
    (res_result # Pending) =>
        /\ (Constructed /\ NameGiven) => res_result.val.name = res_args.name.val
        /\ (Constructed /\ ~NameGiven)
              => res_result.val.name = UrlStr(res_result.val.uri)
        /\ (Constructed /\ ~NameGiven /\ res_args.uri = Some(FileATxt))
              => res_result.val.name = FileATxt
        /\ (~NameGiven /\ ~(res_args.uri.some /\ UrlValid(res_args.uri.val)))
              => ~res_result.ok
        /\ Constructed => res_result.val.name # <<>>

\* A Resource was constructed from an empty name and a valid uri.
C8_Witness ==
    /\ Constructed
    /\ res_args.name = Some(<<>>)
    /\ res_args.uri.some
    /\ res_result.val.name = UrlStr(UrlParse(res_args.uri.val))

(***************************************************************************)
(* ResourceTemplate.from_function.                                         *)
(*                                                                         *)
(* A producer is [name, doc, sig, layers, body]: its __name__ (missing on  *)
(* a functools.partial), its __doc__, its parameters in order, the partial *)
(* wrappers around the callable that it finally is, and what its body does *)
(* when invoked.                                                           *)
(***************************************************************************)
NoneStr == [some |-> FALSE, val |-> ""]

LambdaName == <<"<", "l", "a", "m", "b", "d", "a", ">">>

Param(name, type) == [name |-> name, type |-> type]

ParamNames(sig) == {sig[k].name : k \in 1..Len(sig)}

\* find_context_parameter(fn): the parameter annotated with Context, if any.
find_context_parameter(fn) ==
    LET idx == {k \in 1..Len(fn.sig) : fn.sig[k].type = "Context"}
    IN  IF idx = {} THEN NoneStr
        ELSE Some(fn.sig[CHOOSE k \in idx : \A n \in idx : k <= n].name)

\* _is_async_callable(obj): partials are unwrapped first.
RECURSIVE IsAsyncCallable(_)
IsAsyncCallable(layers) ==
    IF Head(layers) = "partial" THEN IsAsyncCallable(Tail(layers))
    ELSE Head(layers) \in {"async def", "async __call__"}

\* skip_names=[context_kwarg] if context_kwarg is not None else []
SkipNothing(context_kwarg) == {}

SkipNames(context_kwarg) ==
    IF context_kwarg.some THEN {context_kwarg.val} ELSE {}

\* func_metadata(fn, skip_names): the argument model, a type for each
\* parameter of fn that is not skipped.
func_metadata(fn, skip_names) ==
    LET kept == {k \in 1..Len(fn.sig) : fn.sig[k].name \notin skip_names}
    IN  [nm \in {fn.sig[k].name : k \in kept} |->
            fn.sig[CHOOSE k \in kept : fn.sig[k].name = nm].type]

\* name or fn.__name__ (a missing __name__ is an AttributeError)
FuncNameExplicitAlways(name, fn) ==
    IF name.some THEN Return(name.val)
    ELSE IF fn.name.some THEN Return(fn.name.val)
    ELSE Raise("AttributeError", "object has no attribute '__name__'")

FuncName(name, fn) ==
    IF name.some /\ name.val # <<>> THEN Return(name.val)
    ELSE IF fn.name.some THEN Return(fn.name.val)
    ELSE Raise("AttributeError", "object has no attribute '__name__'")

\* x or y on optional strings
OrElse(x, y) == IF x.some /\ x.val # <<>> THEN x ELSE y

from_function(args) ==
    LET fn == args.fn
        func_name == FuncName(args.name, fn)
        context_kwarg == IF args.context_kwarg.some THEN args.context_kwarg
                         ELSE find_context_parameter(fn)
        func_arg_metadata == func_metadata(fn, SkipNames(context_kwarg))
    IN  IF ~func_name.ok THEN func_name
        ELSE IF func_name.val = LambdaName
        THEN Raise("ValueError", "You must provide a name for lambda functions")
        ELSE Return([uri_template |-> args.uri_template,
                     name |-> func_name.val,
                     description |->
                         OrElse(args.description, OrElse(fn.doc, Some(<<>>))).val,
                     mime_type |-> OrElse(args.mime_type, Some(TextPlain)).val,
                     fn |-> fn,
                     parameters |-> func_arg_metadata,
                     context_kwarg |-> context_kwarg,
                     fn_metadata |-> func_arg_metadata,
                     is_async |-> IsAsyncCallable(fn.layers)])

Producer(name, doc, sig, layers, body) ==
    [name |-> name, doc |-> doc, sig |-> sig, layers |-> layers, body |-> body]

CityParam == <<Param("city", "str")>>
UserParams == <<Param("user_id", "int"), Param("ctx", "Context")>>

GetWeather ==
    Producer(Some(<<"g", "w">>), Some(<<"d", "o", "c">>), CityParam,
             <<"def">>, "return")
GetUser ==
    Producer(Some(<<"g", "u">>), None, UserParams, <<"async def">>, "return")
Failing ==
    Producer(Some(<<"f">>), None, CityParam \o <<Param("ctx", "Context")>>,
             <<"async def">>, "raise")
Cancelled ==
    Producer(Some(<<"c">>), None, CityParam, <<"async def">>, "cancel")
Lambda ==
    Producer(Some(LambdaName), None, CityParam, <<"def">>, "return")
PartialUser ==
    Producer(None, None, UserParams, <<"partial", "async def">>, "return")

Producers == {GetWeather, GetUser, Failing, Cancelled, Lambda, PartialUser}

ShortTemplate == <<"a", ":", "{", "a", "}">>

FromFunctionArgs ==
    [fn : Producers,
     uri_template : {ShortTemplate},
     name : Optional({<<>>, <<"n">>, LambdaName}),
     description : Optional({<<>>, <<"d">>}),
     mime_type : Optional({<<>>, <<"t", "/", "p">>}),
     context_kwarg : {NoneStr, Some("ctx"), Some("city")}]

InitFromFunction ==
    /\ ff_args \in FromFunctionArgs
    /\ ff_result = Pending
    /\ uri_template = Idle /\ match_uri = Idle /\ match_result = Idle
    /\ res_args = Idle /\ res_result = Idle
    /\ templates = Idle /\ calls = Idle /\ invocations = Idle /\ reads = Idle

FromFunctionCall ==
    /\ ff_result = Pending
    /\ ff_result' = from_function(ff_args)
    /\ UNCHANGED <<ff_args, matchVars, resVars, createVars>>

NextFromFunction == FromFunctionCall

SpecFromFunction == InitFromFunction /\ [][NextFromFunction]_vars

FromFunctionDone == ff_result # Pending
Anonymous(fn) == fn.name.some /\ fn.name.val = LambdaName
Declared(fn) == fn.name.some

GivenName(name) == name.some /\ name.val # <<>>

NoContext == [some |-> FALSE, val |-> ""]
LiveContext == Some("Context object")

\* {self.context_kwarg: context} if self.context_kwarg is not None else None
\* (no side channel is the empty mapping here)
SideChannel(t, context) ==
    IF t.context_kwarg.some
    THEN [k \in {t.context_kwarg.val} |-> context]
    ELSE [k \in {} |-> context]

NumericStrings == {"42", "7"}

Coercible(type, v) ==
    CASE type = "str" -> TRUE
      [] type = "int" -> v \in NumericStrings
      [] OTHER -> FALSE

\* The validation of call_fn_with_arg_validation: every field of the argument
\* model is required and coerced to its type, other keys are ignored.
ValidateArgs(arg_model, raw) ==
    IF \E f \in DOMAIN arg_model : f \notin DOMAIN raw
    THEN Raise("ValidationError", "Field required")
    ELSE IF \E f \in DOMAIN arg_model : ~Coercible(arg_model[f], raw[f])
    THEN Raise("ValidationError", "Input should be a valid integer")
    ELSE Return([f \in DOMAIN arg_model |-> <<arg_model[f], raw[f]>>])

\* arguments_parsed_dict | arguments_to_pass_directly
Merge(validated, direct) ==
    [k \in DOMAIN validated \cup DOMAIN direct |->
        IF k \in DOMAIN direct THEN <<"direct", direct[k]>> ELSE validated[k]]

\* Exceptions that derive from BaseException but not from Exception.
BaseOnly == {"CancelledError", "KeyboardInterrupt", "SystemExit", "GeneratorExit"}
IsException(e) == e.kind \notin BaseOnly

\* fn(**kwargs): what the producer gives for these arguments.
InvokeProducer(fn, kwargs) ==
    IF DOMAIN kwargs # ParamNames(fn.sig)
    THEN Raise("TypeError", "unexpected or missing keyword argument")
    ELSE CASE fn.body = "return" -> Return([by |-> fn.name, args |-> kwargs])
           [] fn.body = "raise" -> Raise("RuntimeError", "boom")
           [] fn.body = "cancel" -> Raise("CancelledError", "cancelled")

\* fn=lambda: result -- the closure holds the value, not the producer.
ClosureOverProducer(result) == [reinvoke |-> TRUE, value |-> result]

ResultClosure(result) == [reinvoke |-> FALSE, value |-> result]

\* FunctionResource(uri=uri, name=self.name, ..., fn=lambda: result)
FunctionResource(t, uri, result) ==
    LET r == ResourceInit([uri |-> Some(uri), name |-> Some(t.name),
                           mime_type |-> Some(t.mime_type)])
    IN  IF r.ok
        THEN Return([uri |-> r.val.uri, name |-> r.val.name,
                     description |-> t.description,
                     mime_type |-> r.val.mime_type,
                     fn |-> ResultClosure(result)])
        ELSE r

CreationPrefix == "Error creating resource from template: "

\* except Exception as e: raise ValueError(f"Error creating resource from
\* template: {e}") -- what leaves create_resource when e was raised in it.
ExceptReraisesOriginal(e) == e

ExceptException(e) ==
    IF IsException(e)
    THEN [ok |-> FALSE, kind |-> "ValueError",
          msg |-> <<CreationPrefix>> \o e.msg, val |-> <<>>]
    ELSE e

\* create_resource assigns no field of the template it is called on.
TemplatesCachingResult(tpls, tid, params) ==
    [tpls EXCEPT ![tid].description = <<"c", "a", "c", "h", "e", "d">>]

TemplatesAfterCreate(tpls, tid, params) == tpls

TemplatePool ==
    <<from_function([fn |-> GetWeather, uri_template |-> ShortTemplate,
                     name |-> None, description |-> None, mime_type |-> None,
                     context_kwarg |-> NoneStr]).val,
      from_function([fn |-> GetUser, uri_template |-> ShortTemplate,
                     name |-> None, description |-> None, mime_type |-> None,
                     context_kwarg |-> NoneStr]).val,
      from_function([fn |-> Failing, uri_template |-> ShortTemplate,
                     name |-> None, description |-> None, mime_type |-> None,
                     context_kwarg |-> Some("ctx")]).val,
      from_function([fn |-> Cancelled, uri_template |-> ShortTemplate,
                     name |-> None, description |-> None, mime_type |-> None,
                     context_kwarg |-> NoneStr]).val,
      from_function([fn |-> Lambda, uri_template |-> ShortTemplate,
                     name |-> Some(<<"n">>), description |-> None,
                     mime_type |-> Some(<<"t">>),
                     context_kwarg |-> NoneStr]).val>>

Calls == 1..NumCalls

CreateUris == {<<"a", ":", "b">>}
CreateParams ==
    {[k \in {"city"} |-> "paris"], [k \in {"user_id"} |-> "42"],
     [k \in {"user_id"} |-> "7"], [k \in {"user_id"} |-> "x"]}
Contexts == {NoContext, LiveContext}

\* The frame of a create_resource call that has not been made yet.
NoFrame ==
    [pc |-> "idle", t |-> 0, uri |-> <<>>, params |-> <<>>,
     context |-> NoContext, direct |-> <<>>, kwargs |-> <<>>,
     result |-> None, cause |-> Pending, out |-> Pending,
     trace |-> <<>>, overlapped |-> FALSE]

Init ==
    /\ templates = TemplatePool
    /\ calls = [c \in Calls |-> NoFrame]
    /\ invocations = [c \in Calls |-> 0]
    /\ reads = [c \in Calls |-> <<>>]
    /\ uri_template = Idle /\ match_uri = Idle /\ match_result = Idle
    /\ ff_args = Idle /\ ff_result = Idle
    /\ res_args = Idle /\ res_result = Idle

\* A try block that swallows what was raised and returns a Resource anyway.
AfterProducerSwallows(frame, t, outcome) ==
    LET value == IF outcome.ok THEN outcome.val ELSE <<>>
    IN  [frame EXCEPT !.pc = "returned",
                      !.result = Some(value),
                      !.cause = IF outcome.ok THEN Pending ELSE outcome,
                      !.out = Return([uri |-> UrlParse(frame.uri),
                                      name |-> t.name,
                                      description |-> t.description,
                                      mime_type |-> t.mime_type,
                                      fn |-> ResultClosure(value)]),
                      !.trace = @ \o (IF outcome.ok THEN <<"wrap">>
                                      ELSE <<"raise">>)]

\* The try block after the producer gave outcome: wrap a result in a
\* FunctionResource, and hand whatever was raised to the except clause.
AfterProducer(frame, t, outcome) ==
    IF outcome.ok
    THEN LET r == FunctionResource(t, frame.uri, outcome.val)
         IN  IF r.ok
             THEN [frame EXCEPT !.pc = "returned",
                                !.result = Some(outcome.val),
                                !.out = r,
                                !.trace = @ \o <<"wrap">>]
             ELSE [frame EXCEPT !.pc = "raised",
                                !.result = Some(outcome.val),
                                !.cause = r,
                                !.out = ExceptException(r),
                                !.trace = @ \o <<"wrap", "raise">>]
    ELSE [frame EXCEPT !.pc = "raised",
                       !.cause = outcome,
                       !.out = ExceptException(outcome),
                       !.trace = @ \o <<"raise">>]

\* await create_resource(uri, params, context) up to the point where the
\* producer suspends (an async producer) or to its end (a sync one).
CreateResource(c, tid, uri, params, context) ==
    /\ calls[c].pc = "idle"
    /\ LET t == templates[tid]
           direct == SideChannel(t, context)
           v == ValidateArgs(t.fn_metadata, params)
           frame == [NoFrame EXCEPT !.t = tid, !.uri = uri, !.params = params,
                                    !.context = context, !.direct = direct,
                                    !.trace = <<"validate">>]
       IN  IF ~v.ok
           THEN /\ calls' = [calls EXCEPT ![c] =
                                [frame EXCEPT !.pc = "raised",
                                              !.cause = v,
                                              !.out = ExceptException(v),
                                              !.trace = @ \o <<"raise">>]]
                /\ UNCHANGED invocations
           ELSE LET started == [frame EXCEPT !.kwargs = Merge(v.val, direct),
                                             !.trace = @ \o <<"invoke">>]
                IN  /\ invocations' = [invocations EXCEPT ![c] = @ + 1]
                    /\ calls' = [calls EXCEPT ![c] =
                                    IF t.is_async
                                    THEN [started EXCEPT !.pc = "awaiting"]
                                    ELSE AfterProducer(started, t,
                                             InvokeProducer(t.fn, started.kwargs))]
    /\ templates' = TemplatesAfterCreate(templates, tid, params)
    /\ UNCHANGED <<reads, matchVars, ffVars, resVars>>

\* The awaited producer of call c ends and create_resource resumes;
\* overlapped records whether another call was suspended at its producer then.
ProducerDone(c) ==
    /\ calls[c].pc = "awaiting"
    /\ LET t == templates[calls[c].t]
           frame == [calls[c] EXCEPT
                       !.overlapped =
                           \E d \in Calls \ {c} : calls[d].pc = "awaiting"]
       IN  calls' = [calls EXCEPT ![c] =
                        AfterProducer(frame, t,
                                      InvokeProducer(t.fn, calls[c].kwargs))]
    /\ UNCHANGED <<templates, invocations, reads, matchVars, ffVars, resVars>>

\* await resource.read() on the Resource that call c returned: the resource
\* calls its fn, which re-runs the producer only if the closure holds it.
Read(c) ==
    /\ calls[c].pc = "returned"
    /\ Len(reads[c]) < MaxReads
    /\ LET fn == calls[c].out.val.fn
           t == templates[calls[c].t]
       IN  IF fn.reinvoke
           THEN /\ invocations' = [invocations EXCEPT ![c] = @ + 1]
                /\ reads' = [reads EXCEPT ![c] =
                                Append(@, InvokeProducer(t.fn, calls[c].kwargs))]
           ELSE /\ UNCHANGED invocations
                /\ reads' = [reads EXCEPT ![c] = Append(@, Return(fn.value))]
    /\ UNCHANGED <<templates, calls, matchVars, ffVars, resVars>>

Next ==
    \/ \E c \in Calls, tid \in 1..Len(TemplatePool), uri \in CreateUris,
          params \in CreateParams, context \in Contexts :
            CreateResource(c, tid, uri, params, context)
    \/ \E c \in Calls : ProducerDone(c)
    \/ \E c \in Calls : Read(c)

Spec == Init /\ [][Next]_vars

Started(c) == calls[c].pc # "idle"
Ended(c) == calls[c].pc \in {"returned", "raised"}
Returned(c) == calls[c].pc = "returned"
FailedValidation(c) == calls[c].trace = <<"validate", "raise">>
FailedInvocation(c) == calls[c].trace = <<"validate", "invoke", "raise">>

\* Every read of the Resource of call c gave the value computed at creation.
ReadsGiveResult(c) ==
    \A i \in 1..Len(reads[c]) : reads[c][i] = Return(calls[c].result.val)

\* C3 as stated: each create_resource call invokes the producer exactly once,
\* and the reads of the returned Resource give that same value without
\* another invocation.
C3_ExactlyOncePerCall ==
    \A c \in Calls :
        Ended(c) => (invocations[c] = 1 /\ (Returned(c) => ReadsGiveResult(c)))

\* C3 amended: a call whose params pass validation invokes the producer
\* exactly once and a call whose params fail validation never invokes it;
\* the reads of the returned Resource give the value computed at creation
\* and invoke nothing.
C3_OncePerValidatedCall ==
    \A c \in Calls :
        /\ (Started(c) /\ ~FailedValidation(c)) => invocations[c] = 1
        /\ (~Started(c) \/ FailedValidation(c)) => invocations[c] = 0
        /\ Returned(c) => ReadsGiveResult(c)

\* A returned Resource was read twice.
C3_Witness ==
    \E c \in Calls :
        Returned(c) /\ Len(reads[c]) >= 2 /\ invocations[c] = 1

\* text occurs in msg
ContainsText(msg, text) ==
    \E i \in 0..(Len(msg) - Len(text)) :
        SubSeq(msg, i + 1, i + Len(text)) = text

IsCreationError(e, cause) ==
    /\ ~e.ok
    /\ e.kind = "ValueError"
    /\ e.msg[1] = CreationPrefix
    /\ ContainsText(e.msg, cause.msg)

\* C4 as stated: any failure during validation or invocation reaches the
\* caller as the creation error, a ValueError whose message contains the text
\* of the original failure, and as no other kind of error.
C4_AnyFailureIsCreationError ==
    \A c \in Calls :
        (FailedValidation(c) \/ FailedInvocation(c))
            => IsCreationError(calls[c].out, calls[c].cause)

\* C4 amended: a failure raised as an Exception during validation or
\* invocation reaches the caller as the creation error, a ValueError whose
\* message contains the text of the original failure, whichever of the two it
\* was; what the producer raises that derives from BaseException only
\* (CancelledError, KeyboardInterrupt, SystemExit) leaves create_resource as
\* it is.
C4_ExceptionIsCreationError ==
    \A c \in Calls :
        (FailedValidation(c) \/ FailedInvocation(c)) =>
            IF IsException(calls[c].cause)
            THEN IsCreationError(calls[c].out, calls[c].cause)
            ELSE calls[c].out = calls[c].cause

\* One call failed in validation, another in its producer, and both ended in
\* the creation error.
C4_Witness ==
    \E c, d \in Calls :
        /\ FailedValidation(c) /\ calls[c].cause.kind = "ValidationError"
        /\ FailedInvocation(d) /\ calls[d].cause.kind = "RuntimeError"
        /\ calls[c].out.kind = "ValueError"
        /\ calls[d].out.kind = "ValueError"

\* The params have what the producer needs besides its context parameter.
ParamsFit(t, params) ==
    \A k \in 1..Len(t.fn.sig) :
        LET p == t.fn.sig[k]
        IN  (~(t.context_kwarg.some /\ p.name = t.context_kwarg.val))
                => (p.name \in DOMAIN params /\ Coercible(p.type, params[p.name]))

\* C5: the context parameter of a template, given or discovered, is not in
\* its parameters schema; a call whose params fit is not failed by validation
\* whatever the context object is, and the producer gets the context under
\* that parameter's name from the side channel, not from the validated params.
C5_ContextBypass ==
    /\ \A tid \in 1..Len(templates) :
          templates[tid].context_kwarg.some
              => templates[tid].context_kwarg.val
                    \notin DOMAIN templates[tid].parameters
    /\ \A c \in Calls :
          (Started(c) /\ templates[calls[c].t].context_kwarg.some) =>
              LET t == templates[calls[c].t]
                  kw == t.context_kwarg.val
              IN  /\ ParamsFit(t, calls[c].params) => ~FailedValidation(c)
                  /\ invocations[c] > 0
                        => /\ kw \in DOMAIN calls[c].kwargs
                           /\ calls[c].kwargs[kw] = <<"direct", calls[c].context>>
                           /\ calls[c].direct = [k \in {kw} |-> calls[c].context]

\* A template with a context parameter made a Resource with a live context.
C5_Witness ==
    \E c \in Calls :
        /\ Returned(c)
        /\ calls[c].context = LiveContext
        /\ templates[calls[c].t].context_kwarg.some
        /\ calls[c].result.val.args["ctx"] = <<"direct", LiveContext>>

\* create_resource run alone, from its call to its end.
SequentialCreate(t, uri, params, context) ==
    LET v == ValidateArgs(t.fn_metadata, params)
        o == InvokeProducer(t.fn, Merge(v.val, SideChannel(t, context)))
        r == FunctionResource(t, uri, o.val)
    IN  IF ~v.ok THEN ExceptException(v)
        ELSE IF ~o.ok THEN ExceptException(o)
        ELSE IF ~r.ok THEN ExceptException(r)
        ELSE r

\* C6: concurrent create_resource calls are independent: each call ends as it
\* would have ended alone, its Resource reads as the value produced for its
\* own params, and no call changes a template or, once it is returned, the
\* Resource of another call.
C6_CallsIndependent ==
    /\ templates = TemplatePool
    /\ \A c \in Calls :
          Ended(c) =>
              /\ calls[c].out
                    = SequentialCreate(TemplatePool[calls[c].t], calls[c].uri,
                                       calls[c].params, calls[c].context)
              /\ Returned(c) =>
                    /\ ReadsGiveResult(c)
                    /\ calls[c].out.val.fn.value = calls[c].result.val
                    /\ \A k \in DOMAIN calls[c].params
                                  \cap DOMAIN TemplatePool[calls[c].t].parameters :
                          calls[c].result.val.args[k][2] = calls[c].params[k]

\* Two calls were suspended at their producers together; then one returned
\* its Resource, which was read, and the other one has failed.
C6_Witness ==
    \E c, d \in Calls :
        /\ c # d
        /\ Returned(c) /\ calls[c].overlapped
        /\ calls[d].pc = "raised" /\ invocations[d] = 1
        /\ Len(reads[c]) >= 1

AllowedTraces ==
    {<<>>, <<"validate", "raise">>, <<"validate", "invoke">>,
     <<"validate", "invoke", "raise">>, <<"validate", "invoke", "wrap">>,
     <<"validate", "invoke", "wrap", "raise">>}

\* C10 as stated: the steps of a call run in the order validate, invoke,
\* wrap; a failed validation means the producer is never invoked, a failed
\* producer is not invoked again, and in both cases the call ends in the
\* creation error and returns no Resource.
C10_FailureEndsInCreationError ==
    \A c \in Calls :
        /\ calls[c].trace \in AllowedTraces
        /\ FailedValidation(c) => invocations[c] = 0
        /\ FailedInvocation(c) => invocations[c] = 1
        /\ (FailedValidation(c) \/ FailedInvocation(c))
              => /\ calls[c].pc = "raised"
                 /\ ~calls[c].out.ok
                 /\ calls[c].out.kind = "ValueError"
                 /\ calls[c].out.msg[1] = CreationPrefix

\* C10 amended: the same order and short circuit, and the call ends without
\* a Resource in the creation error when the failure is an Exception, and in
\* the raised exception itself when that derives from BaseException only.
C10_FailureShortCircuits ==
    \A c \in Calls :
        /\ calls[c].trace \in AllowedTraces
        /\ FailedValidation(c) => invocations[c] = 0
        /\ FailedInvocation(c) => invocations[c] = 1
        /\ (FailedValidation(c) \/ FailedInvocation(c))
              => /\ calls[c].pc = "raised"
                 /\ ~calls[c].out.ok
                 /\ IF IsException(calls[c].cause)
                    THEN /\ calls[c].out.kind = "ValueError"
                         /\ calls[c].out.msg[1] = CreationPrefix
                    ELSE calls[c].out.kind = calls[c].cause.kind

\* One call ended at its validation and another at its failing producer.
C10_Witness ==
    \E c, d \in Calls :
        /\ FailedValidation(c) /\ invocations[c] = 0
        /\ FailedInvocation(d) /\ invocations[d] = 1
        /\ calls[c].pc = "raised" /\ calls[d].pc = "raised"

====
